---- MODULE Spec2Model ----
(***************************************************************************)
(* A model of consolidate_appointments_all_fields.py: the polling loop of  *)
(* main(), the catalog reader, the address resolver, the fingerprint       *)
(* ledger and the batch writer, against a small remote spreadsheet world.  *)
(*                                                                         *)
(* Python values are represented as follows.                               *)
(*   - a sheet row is a sequence of cell strings; a grid is a sequence of  *)
(*     rows (row 1 first);                                                 *)
(*   - a master-sheet cell is a record holding its text and what the       *)
(*     regular expressions of the program find in that text;               *)
(*   - a dictionary is a function whose domain is its key set;             *)
(*   - None is the string NoneVal; an index of -1 is the integer -1;       *)
(*   - an HttpError raised by a remote call is an outcome chosen by the    *)
(*     action that makes the call, while the event budget lasts.           *)
(***************************************************************************)
EXTENDS Integers, Sequences, FiniteSets, TLC

\* ---------------------------------------------------------------- bounds
MaxCatalog == 2      \* data rows of the master sheet (general world)
MaxEvents == 2       \* remote failures + restarts + source edits in one run
MaxSourcesT == 60    \* sources of the threshold world

\* ------------------------------------------------------ program constants
FLUSH_EVERY == 25
MAX_COLS == 17
TARGET_SPREADSHEET_ID == "1Gk7SYNBXebnlgq4aH85PgxPo_BLVq9MkpcSi7ntq320"
TARGET_SHEET_NAME == "Sheet1"
COMPANY_COLUMN_NAME == "Company"
URL_COLUMN_NAME == "Appointment Spreadsheet:"
COMPANY_NAME_HEADER == "Company Name"
NoneVal == "None"

\* ------------------------------------------------------- generic helpers
Max(a, b) == IF a >= b THEN a ELSE b
Range(s) == {s[i] : i \in 1..Len(s)}
SetMax(S) == CHOOSE m \in S : \A n \in S : n <= m
EmptyDict == [k \in {} |-> << >>]
\* d[k] = v, creating the key when absent
DictPut(d, k, v) == [j \in DOMAIN d \cup {k} |-> IF j = k THEN v ELSE d[j]]
\* Python's [''] * n (empty for n <= 0)
Blanks(n) == [i \in 1..n |-> ""]
\* number of occurrences of a row in a grid
Occurrences(grid, r) == Cardinality({i \in 1..Len(grid) : grid[i] = r})

\* str.strip() on the texts of the model's master sheets
Strip(s) ==
    CASE s = " Company " -> "Company"
      [] s = "Beta "     -> "Beta"
      [] s = " "         -> ""
      [] OTHER           -> s

\* ---------------------------------------------------------- master cells
\* text: the cell's string.  http / spreadsheets: whether the text contains
\* 'http' / 'spreadsheets' and so whether r'(https?://\S+)' matches it.
\* path_id: group 1 of r"/spreadsheets/d/([a-zA-Z0-9-_]+)" ("" = no match).
\* query_id: group 1 of r"id=([a-zA-Z0-9-_]+)" ("" = no match).
\* gid: int of group 1 of r"gid=(\d+)" (-1 = no match).
Txt(s) ==
    [text |-> s, http |-> FALSE, spreadsheets |-> FALSE,
     path_id |-> "", query_id |-> "", gid |-> -1]
SheetUrl(id, g) ==
    [text |-> "https://docs.google.com/spreadsheets/d/" \o id \o "/edit"
              \o (IF g >= 0 THEN "#gid=" \o ToString(g) ELSE ""),
     http |-> TRUE, spreadsheets |-> TRUE,
     path_id |-> id, query_id |-> "", gid |-> g]
LegacyUrl(id, g) ==
    [text |-> "https://spreadsheets.google.com/ccc?key=1&id=" \o id
              \o (IF g >= 0 THEN "&gid=" \o ToString(g) ELSE ""),
     http |-> TRUE, spreadsheets |-> TRUE,
     path_id |-> "", query_id |-> id, gid |-> g]
OtherUrl ==
    [text |-> "https://example.com/report", http |-> TRUE, spreadsheets |-> FALSE,
     path_id |-> "", query_id |-> "", gid |-> -1]

\* ------------------------------------------------------- pure functions
\* get_row_hash: sha256 of the concatenated cell texts.  The digest is
\* modelled by its preimage, the concatenation itself, so two rows have the
\* same fingerprint exactly when their concatenations agree.
RECURSIVE JoinCells(_)
JoinCells(row) == IF row = << >> THEN "" ELSE Head(row) \o JoinCells(Tail(row))
get_row_hash(row) == JoinCells(row)

\* extract_spreadsheet_info_from_url: <<spreadsheet_id, gid>>
extract_spreadsheet_info_from_url(url) ==
    << IF url.path_id # "" THEN url.path_id
       ELSE IF url.query_id # "" THEN url.query_id
       ELSE NoneVal,
       IF url.gid >= 0 THEN url.gid ELSE 0 >>

\* source_key = f"{ss_id}_{gid}"
SourceKey(ss_id, gid) == ss_id \o "_" \o ToString(gid)

\* get_sheet_name_from_gid on the metadata of a spreadsheet (its tabs in
\* order); "Raise" when meta['sheets'][0] does not exist.
get_sheet_name_from_gid(tabs, gid) ==
    LET hits == {i \in 1..Len(tabs) : tabs[i].sheetId = gid}
    IN  IF hits # {} THEN tabs[CHOOSE i \in hits : \A j \in hits : i <= j].title
        ELSE IF Len(tabs) > 0 THEN tabs[1].title
        ELSE "Raise"

\* fetch_entire_sheet: the rows of the named tab, columns A..Q only
ClipRow(row) == IF Len(row) > MAX_COLS THEN SubSeq(row, 1, MAX_COLS) ELSE row
fetch_entire_sheet(tabs, sheet_name) ==
    LET hits == {i \in 1..Len(tabs) : tabs[i].title = sheet_name}
    IN  IF hits = {} THEN << >>
        ELSE LET t == tabs[CHOOSE i \in hits : \A j \in hits : i <= j]
             IN  [i \in 1..Len(t.values) |-> ClipRow(t.values[i])]

\* faulty variant: the ledger file is never read back
load_processed_hashes_fresh(state, content) == EmptyDict

\* load_processed_hashes: a missing, empty or unparsable file is {}
load_processed_hashes(state, content) ==
    IF state = "valid" THEN content ELSE EmptyDict

\* ---------------------------------------------------------------- catalog
\* the index (0-based, -1 when absent) the header loop leaves for a name
ColumnIndex(headers, name) ==
    LET hits == {i \in 1..Len(headers) : Strip(headers[i]) = name}
    IN  IF hits = {} THEN -1 ELSE SetMax(hits) - 1

\* the URL the row loop takes out of a cell ('' when there is none)
CellUrl(cell) ==
    IF cell.http /\ cell.spreadsheets THEN cell
    ELSE IF cell.http THEN cell
    ELSE Txt("")

\* one master data row: << >> when skipped, else <<(url, company_name)>>
RowSource(row, company_col_idx, url_col_idx) ==
    IF row = << >> \/ Len(row) <= Max(company_col_idx, url_col_idx) THEN << >>
    ELSE LET company_name == Strip(row[company_col_idx + 1].text)
             cell_url_data == row[url_col_idx + 1]
         IN  IF company_name = "" \/ cell_url_data.text = "" THEN << >>
             ELSE IF CellUrl(cell_url_data).text = "" THEN << >>
             ELSE << [url |-> CellUrl(cell_url_data), name |-> company_name] >>

RECURSIVE UrlsWithNames(_, _, _)
UrlsWithNames(values, c, u) ==
    IF values = << >> THEN << >>
    ELSE RowSource(Head(values), c, u) \o UrlsWithNames(Tail(values), c, u)

\* "Remove accidental duplicates while preserving order"
RECURSIVE UniqueSources(_, _)
UniqueSources(pairs, seen_urls) ==
    IF pairs = << >> THEN << >>
    ELSE IF Head(pairs).url.text \in seen_urls
         THEN UniqueSources(Tail(pairs), seen_urls)
         ELSE <<Head(pairs)>>
              \o UniqueSources(Tail(pairs), seen_urls \cup {Head(pairs).url.text})

\* faulty variant: a missing column is taken to be the first one
get_source_sheet_urls_unchecked(headers, values) ==
    UniqueSources(
        UrlsWithNames(values, Max(ColumnIndex(headers, COMPANY_COLUMN_NAME), 0),
                      Max(ColumnIndex(headers, URL_COLUMN_NAME), 0)), {})

\* get_source_sheet_urls when both reads of the master sheet succeed
get_source_sheet_urls(headers, values) ==
    LET company_col_idx == ColumnIndex(headers, COMPANY_COLUMN_NAME)
        url_col_idx == ColumnIndex(headers, URL_COLUMN_NAME)
    IN  IF company_col_idx = -1 THEN << >>
        ELSE IF url_col_idx = -1 THEN << >>
        ELSE UniqueSources(UrlsWithNames(values, company_col_idx, url_col_idx), {})

\* ------------------------------------------------------ destination grid
CellAt(grid, i, j) ==
    IF i <= Len(grid) /\ j <= Len(grid[i]) THEN grid[i][j] ELSE ""
\* values().get(range="Sheet1!A1:A1") has no 'values'
A1Empty(grid) == CellAt(grid, 1, 1) = ""
\* values().get(range="'Sheet1'!A:A") has no 'values'
ColumnAEmpty(grid) == \A i \in 1..Len(grid) : CellAt(grid, i, 1) = ""
\* one row written over another: the cells given replace, the rest stay
Overlay(old, new) ==
    [j \in 1..Max(Len(old), Len(new)) |-> IF j <= Len(new) THEN new[j] ELSE old[j]]
\* values().update(range=<column A, row first>, body={'values': rows})
UpdateValues(grid, first, rows) ==
    [i \in 1..Max(Len(grid), first - 1 + Len(rows)) |->
        IF i >= first /\ i < first + Len(rows)
        THEN Overlay(IF i <= Len(grid) THEN grid[i] ELSE << >>, rows[i - first + 1])
        ELSE IF i <= Len(grid) THEN grid[i] ELSE << >>]
\* insertDimension ROWS startIndex .. startIndex + n (0-based)
InsertRows(grid, startIndex, n) ==
    IF Len(grid) <= startIndex THEN grid
    ELSE SubSeq(grid, 1, startIndex) \o [i \in 1..n |-> << >>]
         \o SubSeq(grid, startIndex + 1, Len(grid))

\* ------------------------------------------------------------ the world
Tab(id, title, values) == [sheetId |-> id, title |-> title, values |-> values]

\* the source spreadsheets of the general world, by spreadsheet id
GeneralSheets ==
    [id \in {"S1", "S2", "S3", "S4"} |->
        CASE id = "S1" -> << Tab(0, "Appts", << <<"h", "k">>, <<"a", "b">>, <<"ab">> >>) >>
          [] id = "S2" -> << Tab(0, "Leads", << <<"h">>, <<"c">> >>) >>
          [] id = "S3" -> << Tab(0, "Empty", << <<"h", "k">> >>) >>
          [] id = "S4" -> << Tab(0, "Blank", << <<"", "k">>, <<"", "x">> >>) >>]
\* the row an edit of a source adds at the bottom of its first tab
AddedRow == <<"n">>

MasterRows ==
    { << Txt("Acme"), SheetUrl("S1", -1) >>,
      << Txt("Beta "), SheetUrl("S2", 0) >>,
      << Txt("Gamma"), SheetUrl("S3", 5) >>,
      << Txt("Delta"), SheetUrl("S4", -1) >>,
      << Txt("Eps"), OtherUrl >> }
\* rows put before the row of S1: rows the catalog skips, the same URL
\* again, and another URL of the same tab (the same source key)
ExtraRows ==
    { << Txt("Zeta"), Txt("n/a") >>,
      << Txt(" "), SheetUrl("S2", 0) >>,
      << Txt("Short") >>,
      << >>,
      << Txt("Acme 2"), SheetUrl("S1", -1) >>,
      << Txt("Acme"), LegacyUrl("S1", 0) >> }
GoodHeaders == << " Company ", "Appointment Spreadsheet:" >>
BadHeaders == { << "Name", "Appointment Spreadsheet:" >>, << "Company", "Link" >> }

\* master sheets: up to MaxCatalog distinct source rows in any order, a row
\* the catalog skips or repeats before a source row, or a header row that
\* lacks a required column
Masters ==
    { [headers |-> GoodHeaders, values |-> v] :
        v \in { w \in UNION { [1..n -> MasterRows] : n \in 1..MaxCatalog } :
                  \A i, j \in 1..Len(w) : i # j => w[i] # w[j] } }
    \cup { [headers |-> GoodHeaders,
            values |-> << r, << Txt("Acme"), SheetUrl("S1", -1) >> >>] :
            r \in ExtraRows }
    \cup { [headers |-> h, values |-> << << Txt("Acme"), SheetUrl("S1", -1) >> >>] :
            h \in BadHeaders }

\* the destination spreadsheet at the start: whether the tab exists, its
\* sheetId, and whether another tab of the spreadsheet has sheetId 0
TargetMetas ==
    { [tab |-> TRUE, sheetId |-> 0, zeroTab |-> FALSE],
      [tab |-> FALSE, sheetId |-> 1, zeroTab |-> TRUE] }

\* the threshold world: n sources, the tabs gid 1..n of one spreadsheet
\* (each gid falls back to its first tab), one data row each
ThresholdSheets ==
    [id \in {"S1"} |-> << Tab(0, "Appts", << <<"h", "k">>, <<"a", "b">> >>) >>]
ThresholdMaster(n) ==
    [headers |-> GoodHeaders,
     values |-> [i \in 1..n |-> << Txt("Acme"), SheetUrl("S1", i) >>]]

\* ---------------------------------------------------------------- state
VARIABLES
    pc,                          \* where main() stands
    target_id,                   \* TARGET_SPREADSHEET_ID as configured
    master,                      \* the master sheet: headers and data rows
    sheets,                      \* the source spreadsheets
    dest,                        \* the grid of the destination tab
    targetMeta,                  \* the destination spreadsheet's metadata
    ledgerFile,                  \* processed_rows.json: its parsed content
    fileState,                   \* "absent", "valid" or "empty" (truncated)
    processed_hashes,
    source_infos,
    ss_index,
    all_new_rows_for_upload,
    master_header_with_company,  \* << >> stands for None
    newly_processed_this_run,
    headers_prepared_this_run,
    events,                      \* failures, restarts and edits so far
    batchSrc,                    \* per batch row: its source key, hash, index, cells
    delivered,                   \* <<key, hash>> a successful write delivered
    committed,                   \* delivered and then persisted by its flush
    lastWrite,                   \* did the last append_rows write the batch
    flushLog,                    \* the flushes of the current cycle
    newThisCycle,                \* rows classified new in the current cycle
    contributed,                 \* sources that gave new rows in this cycle
    quietCycles,                 \* cycles begun since the last event (max 2)
    crashBatch                   \* batch written but unpersisted at a restart

locals == << processed_hashes, source_infos, ss_index, all_new_rows_for_upload,
             master_header_with_company, newly_processed_this_run,
             headers_prepared_this_run >>
remote == << master, sheets, dest, targetMeta >>
disk == << ledgerFile, fileState >>
history == << events, batchSrc, delivered, committed, lastWrite, flushLog,
              newThisCycle, contributed, quietCycles, crashBatch >>
vars == << pc, target_id, remote, disk, locals, history >>

\* the state of a freshly started process
FreshProcess ==
    /\ pc = "init"
    /\ processed_hashes = EmptyDict
    /\ source_infos = << >>
    /\ ss_index = 0
    /\ all_new_rows_for_upload = << >>
    /\ master_header_with_company = << >>
    /\ newly_processed_this_run = EmptyDict
    /\ headers_prepared_this_run = FALSE
    /\ batchSrc = << >>
    /\ lastWrite = FALSE
    /\ flushLog = << >>
    /\ newThisCycle = 0
    /\ contributed = 0
    /\ quietCycles = 0

InitCommon ==
    /\ FreshProcess
    /\ dest = << >>
    /\ ledgerFile = EmptyDict
    /\ fileState = "absent"
    /\ delivered = {}
    /\ committed = {}
    /\ crashBatch = << >>

Init ==
    /\ InitCommon
    /\ events = 0
    /\ sheets = GeneralSheets
    /\ master \in Masters
    /\ targetMeta \in TargetMetas
    /\ target_id \in {TARGET_SPREADSHEET_ID, ""}

\* ------------------------------------------------- main(): one source
\* existing_hashes_for_source = set(processed_hashes[source_key])
ExistingHashes(hashes, source_key) ==
    IF source_key \in DOMAIN hashes THEN Range(hashes[source_key]) ELSE {}
\* newly_found_rows: the data rows whose hash is not in the existing set
NewRows(data_rows, existing) ==
    SelectSeq(data_rows, LAMBDA r : get_row_hash(r) \notin existing)
\* faulty variant: a fingerprint found twice in one fetch is recorded once
RECURSIVE FoundHashes_unique(_)
FoundHashes_unique(found) ==
    IF found = << >> THEN << >>
    ELSE LET rest == FoundHashes_unique(Tail(found))
         IN  IF get_row_hash(Head(found)) \in Range(rest) THEN rest
             ELSE << get_row_hash(Head(found)) >> \o rest

\* the hashes appended to newly_processed_this_run[source_key], one per row
\* appended to newly_found_rows
FoundHashes(found) == [i \in 1..Len(found) |-> get_row_hash(found[i])]

\* padded_row + [company_name]
PadRow(row, header, company_name) ==
    row \o Blanks(Len(header) - Len(row)) \o << company_name >>
\* faulty variant: the batch is written on the very last sheet only
FlushDue_last_only(rows, index, total) == rows # << >> /\ index = total

\* the batch-write condition at the end of the loop body
FlushDue(rows, index, total) ==
    rows # << >> /\ (index % FLUSH_EVERY = 0 \/ index = total)

\* faulty variant: the header step is taken at every flush of a cycle
NeedsPrepare_every_flush(prepared, header) == header # << >>

\* "Prepare headers only on the first write of the run"
NeedsPrepare(prepared, header) == ~prepared /\ header # << >>

\* the loop's next position once the body at ss_index is over
NextPc == IF ss_index < Len(source_infos) THEN "source" ELSE "idle"
NextIndex == IF ss_index < Len(source_infos) THEN ss_index + 1 ELSE ss_index
Bump(out) == IF out = "ok" THEN events ELSE events + 1
Quiet(out) == IF out = "ok" THEN quietCycles ELSE 0
MayFail == events < MaxEvents

\* what the remote calls of the body at ss_index may answer: "ok", an
\* HttpError (_err, caught by the callee) or any other exception (_exc,
\* caught nowhere)
SourceOutcomes ==
    LET ids == extract_spreadsheet_info_from_url(source_infos[ss_index].url)
        known == ids[1] # NoneVal /\ ids[1] \in DOMAIN sheets
        named == known /\ get_sheet_name_from_gid(sheets[ids[1]], ids[2])
                            \notin {"Raise", ""}
    IN  {"ok"} \cup (IF MayFail /\ known THEN {"meta_err", "meta_exc"} ELSE {})
               \cup (IF MayFail /\ named THEN {"fetch_err", "fetch_exc"} ELSE {})

ProcessSource ==
    /\ pc = "source"
    /\ \E out \in SourceOutcomes :
        LET info == source_infos[ss_index]
            ids == extract_spreadsheet_info_from_url(info.url)
            ss_id == ids[1]
            gid == ids[2]
            \* an unknown spreadsheet id or a failed lookup is an HttpError
            sheet_name ==
                IF ss_id = NoneVal THEN NoneVal
                ELSE IF out = "meta_err" \/ ss_id \notin DOMAIN sheets THEN NoneVal
                ELSE get_sheet_name_from_gid(sheets[ss_id], gid)
            skipped == ss_id = NoneVal \/ sheet_name \in {NoneVal, ""}
            rows == IF skipped \/ out = "fetch_err" THEN << >>
                    ELSE fetch_entire_sheet(sheets[ss_id], sheet_name)
            header == rows[1]
            data_rows == Tail(rows)
            source_key == SourceKey(ss_id, gid)
            hashes1 == IF source_key \in DOMAIN processed_hashes
                       THEN processed_hashes
                       ELSE DictPut(processed_hashes, source_key, << >>)
            found == NewRows(data_rows, ExistingHashes(hashes1, source_key))
            found_hashes == FoundHashes(found)
            newly1 == DictPut(newly_processed_this_run, source_key,
                        (IF source_key \in DOMAIN newly_processed_this_run
                         THEN newly_processed_this_run[source_key] ELSE << >>)
                        \o found_hashes)
            header1 == IF master_header_with_company = << >>
                       THEN header \o << COMPANY_NAME_HEADER >>
                       ELSE master_header_with_company
            batch1 == all_new_rows_for_upload
                      \o [i \in 1..Len(found) |-> PadRow(found[i], header, info.name)]
            flush == FlushDue(batch1, ss_index, Len(source_infos))
        IN  /\ events' = Bump(out)
            /\ quietCycles' = Quiet(out)
            /\ UNCHANGED << target_id, remote, disk, source_infos,
                            headers_prepared_this_run, delivered, committed,
                            lastWrite, flushLog, crashBatch >>
            /\ IF sheet_name = "Raise" \/ out \in {"meta_exc", "fetch_exc"}
               THEN \* IndexError out of get_sheet_name_from_gid, or an exception
                    \* that is not an HttpError out of a read: main() dies
                    /\ pc' = "died"
                    /\ UNCHANGED << processed_hashes, ss_index, all_new_rows_for_upload,
                                    master_header_with_company, newly_processed_this_run,
                                    batchSrc, newThisCycle, contributed >>
               ELSE IF skipped \/ Len(rows) <= 1
               THEN /\ pc' = NextPc
                    /\ ss_index' = NextIndex
                    /\ UNCHANGED << processed_hashes, all_new_rows_for_upload,
                                    master_header_with_company, newly_processed_this_run,
                                    batchSrc, newThisCycle, contributed >>
               ELSE IF found = << >>
               THEN /\ pc' = NextPc
                    /\ ss_index' = NextIndex
                    /\ processed_hashes' = hashes1
                    /\ newly_processed_this_run' = newly1
                    /\ UNCHANGED << all_new_rows_for_upload, master_header_with_company,
                                    batchSrc, newThisCycle, contributed >>
               ELSE /\ processed_hashes' = hashes1
                    /\ newly_processed_this_run' = newly1
                    /\ master_header_with_company' = header1
                    /\ all_new_rows_for_upload' = batch1
                    /\ batchSrc' = batchSrc \o
                          [i \in 1..Len(found) |->
                              [key |-> source_key, hash |-> get_row_hash(found[i]),
                               index |-> ss_index, name |-> info.name,
                               row |-> found[i]]]
                    /\ newThisCycle' = newThisCycle + Len(found)
                    /\ contributed' = contributed + 1
                    /\ pc' = IF ~flush THEN NextPc
                             ELSE IF NeedsPrepare(headers_prepared_this_run, header1)
                             THEN "prepare" ELSE "append"
                    /\ ss_index' = IF flush THEN ss_index ELSE NextIndex

\* ------------------------------------------------- main(): outside the loop
Start ==
    /\ pc = "init"
    /\ pc' = IF target_id = "" THEN "exited" ELSE "cycle"
    /\ UNCHANGED << target_id, remote, disk, locals, history >>

\* the top of the while loop: load the ledger, read the catalog
BeginCycle ==
    /\ pc = "cycle"
    /\ \E out \in {"ok"} \cup (IF MayFail THEN {"master_err", "master_exc"} ELSE {}) :
        LET infos == IF out = "ok"
                     THEN get_source_sheet_urls(master.headers, master.values)
                     ELSE << >>
        IN  /\ processed_hashes' = load_processed_hashes(fileState, ledgerFile)
            /\ source_infos' = IF out = "master_exc" THEN source_infos ELSE infos
            /\ events' = Bump(out)
            /\ quietCycles' = IF out = "ok" THEN (IF quietCycles = 0 THEN 1 ELSE 2) ELSE 0
            /\ flushLog' = << >>
            /\ newThisCycle' = 0
            /\ contributed' = 0
            /\ IF infos = << >>
               THEN \* an exception that is not an HttpError leaves main()
                    /\ pc' = IF out = "master_exc" THEN "died" ELSE "idle"
                    /\ UNCHANGED << ss_index, all_new_rows_for_upload,
                                    master_header_with_company, newly_processed_this_run,
                                    headers_prepared_this_run, batchSrc >>
               ELSE /\ pc' = "source"
                    /\ ss_index' = 1
                    /\ all_new_rows_for_upload' = << >>
                    /\ master_header_with_company' = << >>
                    /\ newly_processed_this_run' = EmptyDict
                    /\ headers_prepared_this_run' = FALSE
                    /\ batchSrc' = << >>
    /\ UNCHANGED << target_id, remote, disk, delivered, committed, lastWrite, crashBatch >>

\* time.sleep(4 * 60 * 60), then the next iteration of the while loop
Sleep ==
    /\ pc = "idle"
    /\ pc' = "cycle"
    /\ UNCHANGED << target_id, remote, disk, locals, history >>

\* ------------------------------------------------------------- the flush
\* faulty variant: the header row is written whatever the first cell holds
prepare_target_sheet_overwrite(grid, meta, headers, out) ==
    LET meta1 == IF meta.tab THEN meta ELSE [meta EXCEPT !.tab = TRUE]
    IN  IF out \in {"meta_err", "add_err", "hdr_err", "a1_exc"}
        THEN [grid |-> grid, meta |-> meta, raised |-> TRUE]
        ELSE [grid |-> UpdateValues(grid, 1, << headers >>), meta |-> meta1,
              raised |-> FALSE]

\* prepare_target_sheet under the answers `out` of its remote calls:
\* the grid and metadata it leaves, and whether an exception left it
prepare_target_sheet(grid, meta, headers, out) ==
    LET meta1 == IF meta.tab THEN meta ELSE [meta EXCEPT !.tab = TRUE]
    IN  IF out = "meta_err" THEN [grid |-> grid, meta |-> meta, raised |-> TRUE]
        ELSE IF ~meta.tab /\ out = "add_err"
        THEN [grid |-> grid, meta |-> meta, raised |-> TRUE]
        ELSE IF out = "a1_err" THEN [grid |-> grid, meta |-> meta1, raised |-> FALSE]
        ELSE IF out = "a1_exc" THEN [grid |-> grid, meta |-> meta1, raised |-> TRUE]
        ELSE IF ~A1Empty(grid) THEN [grid |-> grid, meta |-> meta1, raised |-> FALSE]
        ELSE IF out = "hdr_err" THEN [grid |-> grid, meta |-> meta1, raised |-> TRUE]
        ELSE [grid |-> UpdateValues(grid, 1, << headers >>), meta |-> meta1,
              raised |-> FALSE]

PrepareOutcomes ==
    {"ok"} \cup (IF MayFail THEN {"meta_err", "a1_err", "a1_exc"} ELSE {})
           \cup (IF MayFail /\ ~targetMeta.tab THEN {"add_err"} ELSE {})
           \cup (IF MayFail /\ A1Empty(dest) THEN {"hdr_err"} ELSE {})

PrepareTargetSheet ==
    /\ pc = "prepare"
    /\ \E out \in PrepareOutcomes :
        LET r == prepare_target_sheet(dest, targetMeta, master_header_with_company, out)
        IN  /\ dest' = r.grid
            /\ targetMeta' = r.meta
            /\ pc' = IF r.raised THEN "died" ELSE "append"
            /\ headers_prepared_this_run' =
                  IF r.raised THEN headers_prepared_this_run ELSE TRUE
            /\ events' = Bump(out)
            /\ quietCycles' = Quiet(out)
    /\ UNCHANGED << target_id, master, sheets, disk, processed_hashes, source_infos,
                    ss_index, all_new_rows_for_upload, master_header_with_company,
                    newly_processed_this_run, batchSrc, delivered, committed,
                    lastWrite, flushLog, newThisCycle, contributed, crashBatch >>

\* get_sheet_id_from_name: the tab's sheetId, 0 on an HttpError
get_sheet_id_from_name(meta, out) ==
    IF out = "id_err" THEN 0 ELSE IF meta.tab THEN meta.sheetId ELSE 0

\* append_rows under the answers `out` of its remote calls: the grid it
\* leaves and whether the final values().update wrote the rows.  Every
\* exception is caught inside.
append_rows(grid, meta, rows, out) ==
    LET same == [grid |-> grid, written |-> FALSE]
        sheetId == get_sheet_id_from_name(meta, out)
    IN  IF rows = << >> THEN same
        ELSE IF ~meta.tab \/ out = "get_err" THEN same
        ELSE IF ColumnAEmpty(grid)
        THEN IF out = "update_err" THEN same
             ELSE [grid |-> UpdateValues(grid, 2, rows), written |-> TRUE]
        ELSE IF out = "insert_err" THEN same
        ELSE IF sheetId # meta.sheetId /\ ~meta.zeroTab THEN same
        ELSE LET grid1 == IF sheetId = meta.sheetId
                          THEN InsertRows(grid, 1, Len(rows))
                          ELSE grid
             IN  IF out = "update_err" THEN [grid |-> grid1, written |-> FALSE]
                 ELSE [grid |-> UpdateValues(grid1, 2, rows), written |-> TRUE]

AppendOutcomes ==
    {"ok"} \cup (IF MayFail THEN {"get_err", "update_err"} ELSE {})
           \cup (IF MayFail /\ ~ColumnAEmpty(dest) THEN {"id_err", "insert_err"} ELSE {})

AppendRows ==
    /\ pc = "append"
    /\ \E out \in AppendOutcomes :
        LET r == append_rows(dest, targetMeta, all_new_rows_for_upload, out)
        IN  /\ dest' = r.grid
            /\ lastWrite' = r.written
            /\ delivered' = IF r.written
                            THEN delivered \cup { << e.key, e.hash >> : e \in Range(batchSrc) }
                            ELSE delivered
            /\ flushLog' = Append(flushLog,
                  [at |-> ss_index,
                   from |-> [i \in 1..Len(batchSrc) |-> batchSrc[i].index],
                   rows |-> Len(all_new_rows_for_upload),
                   saved |-> FALSE])
            /\ events' = Bump(out)
            /\ quietCycles' = Quiet(out)
    /\ pc' = "save"
    /\ UNCHANGED << target_id, master, sheets, targetMeta, disk, locals, batchSrc,
                    committed, newThisCycle, contributed, crashBatch >>

\* faulty variant: a key's pending list replaces its persisted list
MergeHashes_replace(hashes, newly) ==
    [k \in DOMAIN hashes \cup {j \in DOMAIN newly : newly[j] # << >>} |->
        IF k \in DOMAIN newly /\ newly[k] # << >> THEN newly[k] ELSE hashes[k]]

\* the loop over newly_processed_this_run.items()
MergeHashes(hashes, newly) ==
    [k \in DOMAIN hashes \cup {j \in DOMAIN newly : newly[j] # << >>} |->
        (IF k \in DOMAIN hashes THEN hashes[k] ELSE << >>)
        \o (IF k \in DOMAIN newly THEN newly[k] ELSE << >>)]

\* the merge, then save_processed_hashes up to open(..., 'w'): the file is
\* truncated
SaveOpen ==
    /\ pc = "save"
    /\ processed_hashes' = MergeHashes(processed_hashes, newly_processed_this_run)
    /\ ledgerFile' = EmptyDict
    /\ fileState' = "empty"
    /\ pc' = "dump"
    /\ UNCHANGED << target_id, remote, source_infos, ss_index, all_new_rows_for_upload,
                    master_header_with_company, newly_processed_this_run,
                    headers_prepared_this_run, history >>

\* json.dump and close, then "Reset for the next batch"
SaveDump ==
    /\ pc = "dump"
    /\ ledgerFile' = processed_hashes
    /\ fileState' = "valid"
    /\ all_new_rows_for_upload' = << >>
    /\ newly_processed_this_run' = EmptyDict
    /\ batchSrc' = << >>
    /\ committed' = IF lastWrite
                    THEN committed \cup { << e.key, e.hash >> : e \in Range(batchSrc) }
                    ELSE committed
    /\ flushLog' = [flushLog EXCEPT ![Len(flushLog)].saved = TRUE]
    /\ pc' = NextPc
    /\ ss_index' = NextIndex
    /\ UNCHANGED << target_id, remote, processed_hashes, source_infos,
                    master_header_with_company, headers_prepared_this_run,
                    events, delivered, lastWrite, newThisCycle, contributed,
                    quietCycles, crashBatch >>

\* ------------------------------------------------------- the environment
\* a stopped process started again: every variable of main() is lost
ProcessReset ==
    /\ events' = events + 1
    /\ pc' = "init"
    /\ processed_hashes' = EmptyDict
    /\ source_infos' = << >>
    /\ ss_index' = 0
    /\ all_new_rows_for_upload' = << >>
    /\ master_header_with_company' = << >>
    /\ newly_processed_this_run' = EmptyDict
    /\ headers_prepared_this_run' = FALSE
    /\ batchSrc' = << >>
    /\ lastWrite' = FALSE
    /\ flushLog' = << >>
    /\ newThisCycle' = 0
    /\ contributed' = 0
    /\ quietCycles' = 0

\* the host stops the process between two steps (wherever it stands) and
\* starts it again; at "save" and at "dump" the batch of the last write is
\* in the destination and its fingerprints are not in the ledger file
Restart ==
    /\ MayFail
    /\ pc \notin {"init", "exited"}
    /\ crashBatch' = IF pc \in {"save", "dump"} /\ lastWrite
                     THEN all_new_rows_for_upload ELSE << >>
    /\ ProcessReset
    /\ UNCHANGED << target_id, remote, disk, delivered, committed >>

\* the host stops the process inside prepare_target_sheet, after addSheet
\* and before the header is written: the tab exists, its grid is as it was
RestartInPrepare ==
    /\ MayFail
    /\ pc = "prepare"
    /\ ~targetMeta.tab
    /\ LET r == prepare_target_sheet(dest, targetMeta, master_header_with_company,
                                     "a1_exc")
       IN  dest' = r.grid /\ targetMeta' = r.meta
    /\ crashBatch' = << >>
    /\ ProcessReset
    /\ UNCHANGED << target_id, master, sheets, disk, delivered, committed >>

\* the host stops the process inside append_rows, after insertDimension and
\* before values().update: the blank rows are in, the batch is not
RestartInAppend ==
    /\ MayFail
    /\ pc = "append"
    /\ all_new_rows_for_upload # << >>
    /\ targetMeta.tab
    /\ ~ColumnAEmpty(dest)
    /\ dest' = append_rows(dest, targetMeta, all_new_rows_for_upload, "update_err").grid
    /\ crashBatch' = << >>
    /\ ProcessReset
    /\ UNCHANGED << target_id, master, sheets, targetMeta, disk, delivered, committed >>

\* the spreadsheets the master sheet points at (the others are never read)
CatalogSheets ==
    LET infos == get_source_sheet_urls(master.headers, master.values)
    IN  { extract_spreadsheet_info_from_url(infos[i].url)[1] : i \in 1..Len(infos) }
        \cap DOMAIN sheets

\* a source gains a row at the bottom of its first tab, at any moment of
\* the running process: during the sleep between two cycles or in the middle
\* of a cycle (each fetch reads the sheet as it is then)
SourceAddsRow ==
    /\ MayFail
    /\ pc \in {"cycle", "source", "prepare", "append", "save", "dump", "idle"}
    /\ \E id \in CatalogSheets :
        sheets' = [sheets EXCEPT ![id][1].values = Append(@, AddedRow)]
    /\ events' = events + 1
    /\ quietCycles' = 0
    /\ UNCHANGED << pc, target_id, master, dest, targetMeta, disk, locals, batchSrc,
                    delivered, committed, lastWrite, flushLog, newThisCycle,
                    contributed, crashBatch >>

\* ------------------------------------------------------- specifications
MainStep ==
    \/ Start
    \/ BeginCycle
    \/ ProcessSource
    \/ PrepareTargetSheet
    \/ AppendRows
    \/ SaveOpen
    \/ SaveDump
    \/ Sleep

Next == MainStep \/ Restart \/ RestartInPrepare \/ RestartInAppend \/ SourceAddsRow

Spec == Init /\ [][Next]_vars

\* no remote failure, no restart, no source edit: every call succeeds
InitQuiet ==
    /\ InitCommon
    /\ events = MaxEvents
    /\ sheets = GeneralSheets
    /\ master \in Masters
    /\ targetMeta \in TargetMetas
    /\ target_id = TARGET_SPREADSHEET_ID

\* the loop is the only thread of the process: it takes its next step
LiveSpec == InitQuiet /\ [][MainStep]_vars /\ WF_vars(MainStep)

\* no restart of the process
NoRestartSpec == Init /\ [][MainStep \/ SourceAddsRow]_vars

\* the threshold world: 1..MaxSourcesT sources with one data row each
InitThreshold ==
    /\ InitCommon
    /\ events = MaxEvents
    /\ sheets = ThresholdSheets
    /\ \E n \in 1..MaxSourcesT : master = ThresholdMaster(n)
    /\ targetMeta = [tab |-> TRUE, sheetId |-> 0, zeroTab |-> FALSE]
    /\ target_id = TARGET_SPREADSHEET_ID

ThresholdSpec == InitThreshold /\ [][MainStep]_vars

\* the header world: one source more than a flush takes, so that every cycle
\* with new rows in all of them has two flushes; the destination tab starts
\* empty, under a header of its own, or with a first row whose first cell
\* is blank (a tab that is not in the spreadsheet yet has no rows); one
\* failure, restart or source edit may happen
HeaderSources == FLUSH_EVERY + 1
HeaderDests ==
    { << >>, << <<"old", "head">> >>, << <<"", "old", "head", "x">> >> }
InitHeader ==
    /\ FreshProcess
    /\ targetMeta \in TargetMetas
    /\ dest \in (IF targetMeta.tab THEN HeaderDests ELSE { << >> })
    /\ ledgerFile = EmptyDict
    /\ fileState = "absent"
    /\ delivered = {}
    /\ committed = {}
    /\ crashBatch = << >>
    /\ events = MaxEvents - 1
    /\ sheets = ThresholdSheets
    /\ master = ThresholdMaster(HeaderSources)
    /\ target_id = TARGET_SPREADSHEET_ID

\* the general world and the header world
HeaderSpec == (Init \/ InitHeader) /\ [][Next]_vars

\* the host restarts the process, but never in the middle of a save
RestartOutsideSave == pc # "dump" /\ Restart
NoSaveCrashSpec ==
    Init /\ [][MainStep \/ RestartOutsideSave \/ RestartInPrepare \/ RestartInAppend
                \/ SourceAddsRow]_vars

\* ------------------------------------------------------------- the claims
PersistedPairs ==
    UNION { { << k, h >> : h \in Range(ledgerFile[k]) } : k \in DOMAIN ledgerFile }
BatchPairs == { << e.key, e.hash >> : e \in Range(batchSrc) }

\* C1 (write-then-persist): starting from an empty ledger, every fingerprint
\* stored in the persisted ledger under a source key belongs to a row that a
\* successful destination write delivered.
C1_WriteThenPersist == PersistedPairs \subseteq delivered

CatalogNow == get_source_sheet_urls(master.headers, master.values)
SourceRowsDelivered(info) ==
    LET ids == extract_spreadsheet_info_from_url(info.url)
        name == get_sheet_name_from_gid(sheets[ids[1]], ids[2])
        rows == fetch_entire_sheet(sheets[ids[1]], name)
    IN  ids[1] \in DOMAIN sheets =>
            \A i \in 2..Len(rows) :
                << SourceKey(ids[1], ids[2]), get_row_hash(rows[i]) >> \in delivered
AllRowsDelivered == \A i \in 1..Len(CatalogNow) : SourceRowsDelivered(CatalogNow[i])

\* C2 (at-least-once delivery): with sources that no longer change and
\* remote calls that succeed, every data row of every resolvable source of
\* the catalog is, after finitely many cycles, delivered to the destination.
C2_AtLeastOnce == <>[]AllRowsDelivered

\* C3 (no re-adding across cycles): without a restart, a row of source key k
\* whose write succeeded and whose fingerprint that flush persisted is never
\* put into a later batch under k, so no later write holds it again.
C3_NoReAdd == BatchPairs \cap committed = {}
\* a later flush is about to write rows of a source key that already has
\* delivered and persisted fingerprints
C3_Witness ==
    /\ pc = "append"
    /\ committed # {}
    /\ \E e \in Range(batchSrc) : \E c \in committed : c[1] = e.key

\* C4 (idempotence of a no-change cycle): a cycle that follows a complete
\* undisturbed cycle over the same sources classifies no row as new and
\* makes no destination write.
C4_NoChangeCycle == quietCycles = 2 => (newThisCycle = 0 /\ flushLog = << >>)

\* C5 (no loss on crash): after a restart between a flush's write and its
\* persist, the first complete cycle leaves every row of that batch in the
\* destination at least twice; and a batch's fingerprints are never being
\* persisted while one of its rows is absent from the destination.
C5_NoLossOnCrash ==
    /\ (events = 1 /\ crashBatch # << >> /\ pc = "idle" /\ quietCycles = 1) =>
          \A r \in Range(crashBatch) : Occurrences(dest, r) >= 2
    /\ pc = "dump" => Range(all_new_rows_for_upload) \subseteq Range(dest)

SourcesDone == IF pc = "idle" THEN Len(source_infos) ELSE ss_index - 1
FlushPoints ==
    { i \in 1..SourcesDone : i % FLUSH_EVERY = 0 \/ i = Len(source_infos) }
PreviousFlush(j) == IF j = 1 THEN 0 ELSE flushLog[j - 1].at

\* C6 (threshold flush): in a cycle where every source so far resolved and
\* gave new rows, the destination writes so far are exactly those after the
\* sources whose 1-based index is a multiple of 25 or the last one, each
\* write holds exactly the rows found since the previous write, and the
\* ledger was saved after each.
C6_ThresholdFlush ==
    (pc \in {"source", "idle"} /\ source_infos # << >> /\ contributed = SourcesDone) =>
        /\ { flushLog[j].at : j \in 1..Len(flushLog) } = FlushPoints
        /\ \A j \in 1..Len(flushLog) :
            /\ PreviousFlush(j) < flushLog[j].at
            /\ Range(flushLog[j].from) = (PreviousFlush(j) + 1)..flushLog[j].at
            /\ flushLog[j].rows = Len(flushLog[j].from)
            /\ flushLog[j].saved
\* 60 sources gave one row each: three writes, after sources 25, 50 and 60
C6_Witness ==
    /\ pc = "idle"
    /\ Len(source_infos) = 60
    /\ contributed = 60
    /\ Len(flushLog) = 3
    /\ flushLog[1].at = 25 /\ flushLog[1].rows = 25
    /\ flushLog[2].at = 50 /\ flushLog[2].rows = 25
    /\ flushLog[3].at = 60 /\ flushLog[3].rows = 10

DestHoldsHeader ==
    Len(dest) >= 1 /\ \E j \in 1..Len(dest[1]) : dest[1][j] # ""

\* C7 (prepend ordering): a flush whose calls all succeed, into a
\* destination holding a header and N rows, leaves the header in place, puts
\* the M batch rows right after it in batch order and keeps the N rows, in
\* order, below them.
C7_PrependOrdering ==
    [][ (pc = "append" /\ pc' = "save" /\ events' = events /\ DestHoldsHeader) =>
            dest' = << dest[1] >> \o all_new_rows_for_upload \o Tail(dest) ]_vars

\* C8 (padding): every row of the pending batch has exactly as many cells
\* as the header captured for the cycle (source header plus the company-name
\* column) and carries its source's display name in that last column.
C8_Padding ==
    \A i \in 1..Len(all_new_rows_for_upload) :
        /\ Len(all_new_rows_for_upload[i]) = Len(master_header_with_company)
        /\ all_new_rows_for_upload[i][Len(master_header_with_company)] = batchSrc[i].name

\* C9 (only configuration errors are fatal): the process is never ended by
\* an error of a source or of a flush step; it is over only when the
\* destination identity is missing.
C9_OnlyConfigIsFatal == pc \in {"exited", "died"} => (pc = "exited" /\ target_id = "")

LacksColumn ==
    \/ ColumnIndex(master.headers, COMPANY_COLUMN_NAME) = -1
    \/ ColumnIndex(master.headers, URL_COLUMN_NAME) = -1

\* C10 (column discovery failure): with the company (or URL) column missing
\* from the master header, every step leaves the catalog empty, reads no
\* source, changes neither the destination nor the ledger file, and the
\* loop goes from the top of a cycle whose master reads succeed to the idle
\* sleep and from there to the next cycle.
C10_ColumnDiscoveryFailure ==
    [][ LacksColumn =>
          /\ source_infos' = << >>
          /\ (pc = "cycle" /\ events' = events) => pc' = "idle"
          /\ pc = "idle" => pc' \in {"cycle", "idle", "init"}
          /\ pc' \in {"init", "cycle", "idle", "exited", "died"}
          /\ UNCHANGED << dest, targetMeta, ledgerFile, fileState >> ]_vars
\* the column is missing and a second cycle in a row has reached the sleep
C10_Witness == LacksColumn /\ pc = "idle" /\ quietCycles = 2 /\ dest = << >>

\* C11 (flush trigger): a pending batch is handed to a destination write
\* whenever the source list is exhausted (or 25 sources are done), whatever
\* the source at that position gave; so no cycle reaches its sleep with a
\* pending batch that is not empty.
C11_FlushTrigger == pc = "idle" => all_new_rows_for_upload = << >>

\* C12 (repeated rows flagged once): of the data rows of one fetch that hold
\* the same cell sequence, at most one is classified as new and pushed to
\* the pending batch.
C12_FlaggedOnce ==
    \A i, j \in 1..Len(batchSrc) :
        (batchSrc[i].index = batchSrc[j].index /\ batchSrc[i].row = batchSrc[j].row)
            => i = j

Row1(grid) == IF Len(grid) >= 1 THEN grid[1] ELSE << >>

\* C13 (header protection): no step changes the destination's first row
\* while its first cell is non-empty; the first row changes only in the
\* header step, with the first cell empty; and the header step is entered
\* only for the first flush of a cycle.
C13_HeaderProtection ==
    [][ /\ ~A1Empty(dest) => Row1(dest') = Row1(dest)
        /\ Row1(dest') # Row1(dest) =>
              (pc = "prepare" /\ flushLog = << >> /\ A1Empty(dest))
        /\ pc' = "prepare" => (flushLog' = << >> /\ ~headers_prepared_this_run') ]_vars
\* the second flush of a cycle has written its rows without a header step,
\* under a first row that is not the header captured for this cycle
C13_Witness ==
    /\ pc = "save"
    /\ Len(flushLog) = 2
    /\ lastWrite
    /\ headers_prepared_this_run
    /\ ~A1Empty(dest)
    /\ Row1(dest) # master_header_with_company

\* the fingerprints the ledger file holds for a source key
PersistedSet(source_key) ==
    IF fileState = "valid" /\ source_key \in DOMAIN ledgerFile
    THEN Range(ledgerFile[source_key]) ELSE {}
\* the data rows a successful fetch of the source at ss_index returns
FetchedDataRows ==
    LET ids == extract_spreadsheet_info_from_url(source_infos[ss_index].url)
        rows == fetch_entire_sheet(sheets[ids[1]],
                                   get_sheet_name_from_gid(sheets[ids[1]], ids[2]))
    IN  IF ids[1] \in DOMAIN sheets /\ Len(rows) > 1 THEN Tail(rows) ELSE << >>
CurrentKey ==
    LET ids == extract_spreadsheet_info_from_url(source_infos[ss_index].url)
    IN  SourceKey(ids[1], ids[2])

\* the rows a read of a source without a failure adds to the pending batch
\* are exactly its data rows whose fingerprint is not in the persisted
\* ledger set of its own source key, whatever the ledger holds under other
\* keys
ClassifiedPerSource ==
    (pc = "source" /\ events' = events /\ pc' # "died") =>
        [i \in 1..(Len(batchSrc') - Len(batchSrc)) |->
            batchSrc'[Len(batchSrc) + i].row]
        = SelectSeq(FetchedDataRows,
                    LAMBDA r : get_row_hash(r) \notin PersistedSet(CurrentKey))
\* the data rows of a source of the catalog (none when it does not resolve)
DataRowsOf(info) ==
    LET ids == extract_spreadsheet_info_from_url(info.url)
        rows == fetch_entire_sheet(sheets[ids[1]],
                                   get_sheet_name_from_gid(sheets[ids[1]], ids[2]))
    IN  IF ids[1] \in DOMAIN sheets /\ Len(rows) > 1 THEN Range(Tail(rows)) ELSE {}
KeyOf(info) ==
    LET ids == extract_spreadsheet_info_from_url(info.url)
    IN  SourceKey(ids[1], ids[2])
\* a data row that two sources of the catalog with different source keys
\* both hold has been delivered for each of the two
IdenticalRowsDelivered ==
    \A cat \in {CatalogNow} :
        \A i, j \in 1..Len(cat) :
            KeyOf(cat[i]) # KeyOf(cat[j]) =>
                \A r \in DataRowsOf(cat[i]) \cap DataRowsOf(cat[j]) :
                    /\ << KeyOf(cat[i]), get_row_hash(r) >> \in delivered
                    /\ << KeyOf(cat[j]), get_row_hash(r) >> \in delivered

\* C14 (per-source deduplication only): a data row of source key k is
\* classified as new exactly when its fingerprint is not in the persisted
\* ledger set of k, whatever the ledger holds under other keys; and once two
\* complete undisturbed cycles have run, a row that two sources with
\* different keys both hold has been delivered for each of them.
C14_PerSourceDedup ==
    [][ /\ ClassifiedPerSource
        /\ (pc = "idle" /\ quietCycles = 2) => IdenticalRowsDelivered ]_vars

\* C15 (atomic ledger replacement): once a flush has persisted fingerprints,
\* what a start of the process would load from the ledger file is never
\* empty, a crash during a later save included.
C15_AtomicSave ==
    (pc = "init" /\ committed # {}) =>
        load_processed_hashes(fileState, ledgerFile) # EmptyDict

Count(seq, x) == Cardinality({i \in 1..Len(seq) : seq[i] = x})
\* the fingerprint of a batch row: that of its cells before the company
\* name (the padding cells are empty and leave the concatenation as it is)
BatchRowHash(row) == get_row_hash(SubSeq(row, 1, Len(row) - 1))
BatchHashes ==
    [i \in 1..Len(all_new_rows_for_upload) |-> BatchRowHash(all_new_rows_for_upload[i])]
RECURSIVE PendingHashes(_)
PendingHashes(keys) ==
    IF keys = {} THEN << >>
    ELSE LET k == CHOOSE j \in keys : TRUE
         IN  newly_processed_this_run[k] \o PendingHashes(keys \ {k})
AllPendingHashes == PendingHashes(DOMAIN newly_processed_this_run)

\* C16 (batch and pending fingerprints in step): between two sources, at a
\* flush and at the start of a cycle, the per-source pending lists hold the
\* fingerprints of the rows of the pending batch, each as many times as the
\* batch holds it; and what a flush merges into the ledger are those.
C16_InStep ==
    /\ \A h \in Range(AllPendingHashes) \cup Range(BatchHashes) :
          Count(AllPendingHashes, h) = Count(BatchHashes, h)
    /\ pc = "dump" =>
          \A k \in DOMAIN newly_processed_this_run :
              newly_processed_this_run[k] # << >> =>
                  /\ k \in DOMAIN processed_hashes
                  /\ Range(newly_processed_this_run[k]) \subseteq Range(processed_hashes[k])
\* a flush is handing over a batch in which one fingerprint occurs twice
C16_Witness ==
    /\ pc = "save"
    /\ \E i, j \in 1..Len(BatchHashes) : i # j /\ BatchHashes[i] = BatchHashes[j]

\* every key of a is a key of b, with at least the fingerprints of a
Includes(b, a) ==
    \A k \in DOMAIN a : k \in DOMAIN b /\ Range(a[k]) \subseteq Range(b[k])

\* C17 (the persisted ledger only grows): without a crash during a save,
\* what a save writes holds, for every source key, all the fingerprints the
\* ledger file held before the save, and no other step changes the file.
C17_LedgerGrows ==
    [][ /\ (pc = "save" /\ pc' = "dump") => Includes(processed_hashes', ledgerFile)
        /\ (pc = "dump" /\ pc' \notin {"init", "dump"}) => ledgerFile' = processed_hashes
        /\ ((pc = "dump") = (pc' = "dump")) => ledgerFile' = ledgerFile ]_vars
\* a save of a one-row batch has completed and left a source key with two
\* fingerprints: the ledger held one before this save
C17_Witness ==
    /\ pc = "idle"
    /\ fileState = "valid"
    /\ Len(flushLog) = 1
    /\ flushLog[1].saved /\ flushLog[1].rows = 1
    /\ \E k \in DOMAIN ledgerFile : Len(ledgerFile[k]) >= 2

\* C18 (destination rows are never overwritten or removed): every step
\* leaves each non-blank data row of the destination in the destination,
\* with the same cells, at least as many times as before.
C18_RowsKept ==
    [][ \A i \in 2..Len(dest) :
            dest[i] # << >> => Occurrences(dest', dest[i]) >= Occurrences(dest, dest[i]) ]_vars

====
